---- MODULE Spec2Model ----
(***************************************************************************)
(* A model of pal.py: the trigger registry (Pal.triggers), its persistence *)
(* through Config (initialize / save), message dispatch (on_message), the  *)
(* owner commands create / add / pattern / remove / delete, and the        *)
(* reaction-driven pager inside `remove`.                                  *)
(*                                                                         *)
(* The program runs on one asyncio loop: a handler runs without            *)
(* interruption until it awaits something that really suspends.  Every     *)
(* action below is one such uninterrupted stretch of a handler.            *)
(***************************************************************************)
EXTENDS Integers, Sequences, FiniteSets, TLC

(***************************************************************************)
(* Bounds of the model.                                                    *)
(***************************************************************************)
\* responses a rule may hold
MaxResponses == 2
\* `remove` sessions open at once
MaxSessions == 2
\* saves handed to Config and not yet written
MaxWrites == 3
\* `add` commands suspended on their attachment download at once
MaxAdds == 1
\* handlers suspended on the readiness gate at once
MaxParked == 1
\* Trigger objects alive at once
MaxObjs == 3
\* messages, commands and reactions that arrive in one run
MaxOps == 3

(***************************************************************************)
(* Values.                                                                 *)
(***************************************************************************)
\* Python's None
NoneV == [kind |-> "None"]
\* a Python str holding text t (a sequence of characters)
Str(t) == [kind |-> "str", s |-> t]
\* a compiled re.Pattern: its source text and its flags
Pat(t, f) == [kind |-> "Pattern", pattern |-> t, flags |-> f]

\* Python truthiness of None, a str, a re.Pattern
Truthy(v) ==
    CASE v.kind = "None" -> FALSE
      [] v.kind = "str" -> Len(v.s) > 0
      [] OTHER -> TRUE

RuleNames == {"default", "greet"}
\* response texts an operator may type
Texts == {"hi"}
Prefixes == {"aaaaaaaa", "bbbbbbbb"}
Attachments == {"img.png"}
\* the stored file name of an attachment
StoredName(prefix, original) == <<prefix, "_", original>>

\* pattern texts an operator may type (the argument takes the rest of the
\* command and is never empty)
PatternTexts == { <<"h">>, <<"^", "$">>, <<"(">> }

MentionTokens == {"<@id>", "<@!id>"}
\* message contents: a sequence of characters, a mention being one character
Contents ==
    { <<>>, <<"h">>,
      <<"<@id>">>, <<"<@id>", " ">>,
      <<"<@id>", "h">>, <<"<@id>", " ", "H">>, <<"<@!id>", " ", "x">>,
      <<"h", "<@id>">>, <<" ", "<@id>", "h">> }
\* the messages that arrive: of a user, and one of a bot
Messages ==
    [content : Contents, bot : {FALSE}] \cup { [content |-> <<"<@id>", "h">>, bot |-> TRUE] }

(***************************************************************************)
(* Regular expressions, for the fragment the model uses: literals, a       *)
(* leading ^, a trailing $, groups, and the IGNORECASE flag.               *)
(***************************************************************************)
RECURSIVE Depth(_, _, _)
\* the nesting depth after scanning t from position i, or -1 on a stray ")"
Depth(t, i, d) ==
    IF i > Len(t) THEN d
    ELSE IF t[i] = "(" THEN Depth(t, i + 1, d + 1)
    ELSE IF t[i] = ")" THEN (IF d = 0 THEN -1 ELSE Depth(t, i + 1, d - 1))
    ELSE Depth(t, i + 1, d)

\* a slip: no text is ever refused
ReErrorNever(t) == FALSE

\* re.compile raises re.error on this text
ReError(t) == Depth(t, 1, 0) # 0

Lower(c) == IF c = "H" THEN "h" ELSE c
IsMeta(c) == c \in {"^", "$", "(", ")"}
Literal(t) == SelectSeq(t, LAMBDA c : ~IsMeta(c))
Anchored(t) == \E i \in 1..Len(t) : t[i] = "^"
EndAnchored(t) == \E i \in 1..Len(t) : t[i] = "$"
SameChar(p, a, b) == IF p.flags = "I" THEN Lower(a) = Lower(b) ELSE a = b

\* pattern.search(content): a match anywhere in content
Search(p, content) ==
    LET lit == Literal(p.pattern)
        n == Len(lit)
    IN \E i \in 0..(Len(content) - n) :
          /\ Anchored(p.pattern) => i = 0
          /\ EndAnchored(p.pattern) => i + n = Len(content)
          /\ \A k \in 1..n : SameChar(p, lit[k], content[i + k])

RECURSIVE Spaces(_, _)
\* the number of spaces of content from position i on
Spaces(content, i) ==
    IF i <= Len(content) /\ content[i] = " " THEN 1 + Spaces(content, i + 1) ELSE 0

\* a slip: search() in place of match() finds the mention anywhere
MentionSearch(content) ==
    IF \E i \in 1..Len(content) : content[i] \in MentionTokens
    THEN 1 + Spaces(content, 1 + CHOOSE i \in 1..Len(content) :
                                   /\ content[i] \in MentionTokens
                                   /\ \A j \in 1..(i - 1) : content[j] \notin MentionTokens)
    ELSE -1

\* mention_pattern.match(content) for '<@!?id> *': the length matched at
\* position 0, or -1 when there is no match
MentionMatch(content) ==
    IF Len(content) > 0 /\ content[1] \in MentionTokens
    THEN 1 + Spaces(content, 2)
    ELSE -1

\* content[len(mention_match.group(0)):]
Discard(content, n) == SubSeq(content, n + 1, Len(content))

(***************************************************************************)
(* What Config holds under the key "triggers".                             *)
(***************************************************************************)
\* register_global(triggers=[...]): what Config returns when nothing was saved
DefaultTriggers ==
    << [name |-> "default", pattern |-> Pat(<<"^", "$">>, ""), responses |-> <<>>] >>

Unset == [kind |-> "unset"]
Saved(list) == [kind |-> "set", value |-> list]

\* await self.config.triggers()
ConfigGet(st) == IF st.kind = "unset" THEN DefaultTriggers ELSE st.value

File1 == StoredName("aaaaaaaa", "img.png")

\* the registries a previous run may have left in Config, and Unset
InitStores ==
    { Unset,
      Saved(<< [name |-> "default", pattern |-> Str(<<"^", "$">>), responses |-> <<>>] >>),
      Saved(<< [name |-> "default", pattern |-> Str(<<"^", "$">>), responses |-> <<>>],
               [name |-> "greet", pattern |-> Str(<<"h">>), responses |-> <<>>] >>),
      Saved(<< [name |-> "default", pattern |-> Str(<<"^", "$">>),
                responses |-> << [text |-> "yo"] >>],
               [name |-> "greet", pattern |-> Str(<<"h">>),
                responses |-> << [text |-> "ok", file |-> File1], [text |-> "yo"] >>] >>),
      Saved(<< [name |-> "greet", pattern |-> NoneV,
                responses |-> << [text |-> "yo"] >>],
               [name |-> "default", pattern |-> Str(<<"^", "$">>),
                responses |-> << [text |-> "ok"] >>] >>) }

\* the files under trigger_files/ that the responses of a saved registry name
FilesOf(list) ==
    UNION { { <<list[i].name, list[i].responses[j].file>> :
                j \in { k \in 1..Len(list[i].responses) :
                          "file" \in DOMAIN list[i].responses[k] } } :
            i \in 1..Len(list) }

(***************************************************************************)
(* State.                                                                  *)
(***************************************************************************)
VARIABLES
    initPc,           \* where initialize() is: "load", "wait_bot", "done", "crashed"
    ready,            \* self._ready
    mention_pattern,  \* self.mention_pattern
    triggers,         \* self.triggers: the Trigger objects in dict order
    heap,             \* the Trigger objects: ObjIds -> Trigger or Free
    stored,           \* Config's value for "triggers"
    writes,           \* values handed to config.triggers.set, not yet written
    files,            \* <<folder, file name>> under trigger_files/
    adds,             \* `add` commands suspended in a.save(file)
    sessions,         \* `remove` commands: one pager each
    parked,           \* handlers suspended in self._ready.wait()
    out,              \* what the last handler sent
    mutated,          \* some command has changed the registry since the load
    ops               \* the messages, commands and reactions that have arrived

vars == <<initPc, ready, mention_pattern, triggers, heap, stored, writes, files,
          adds, sessions, parked, out, mutated, ops>>

ObjIds == 1..MaxObjs
SessionIds == 1..MaxSessions
Free == [kind |-> "free"]
IsFree(o) == "kind" \in DOMAIN o

(***************************************************************************)
(* class Trigger                                                           *)
(***************************************************************************)
\* Trigger.__init__
NewTrigger(name) == [name |-> name, pattern |-> NoneV, responses |-> <<>>]

\* re.compile(x, flags): x a str or an already compiled pattern
ReCompile(x, flags) ==
    IF x.kind = "Pattern"
    THEN IF flags # "" THEN [err |-> "ValueError", value |-> NoneV]
                       ELSE [err |-> "", value |-> x]
    ELSE IF ReError(x.s) THEN [err |-> "re.error", value |-> NoneV]
                         ELSE [err |-> "", value |-> Pat(x.s, flags)]

\* Trigger.from_dict raises on this record
FromDictRaises(d) == Truthy(d.pattern) /\ ReCompile(d.pattern, "I").err # ""

\* Trigger.from_dict
from_dict(d) ==
    [name |-> d.name,
     pattern |-> IF Truthy(d.pattern) THEN ReCompile(d.pattern, "I").value ELSE NoneV,
     responses |-> d.responses]

\* Trigger.to_dict
to_dict(t) ==
    [name |-> t.name,
     pattern |-> IF Truthy(t.pattern) THEN Str(t.pattern.pattern) ELSE NoneV,
     responses |-> t.responses]

\* Trigger.check, first line: the rule cannot match
Disabled(t) == ~Truthy(t.pattern) \/ t.responses = <<>>

\* a slip: a rule without a pattern is taken to match everything
check_unguarded(t, content) ==
    IF t.responses = <<>> THEN {}
    ELSE IF ~Truthy(t.pattern) \/ Search(t.pattern, content)
         THEN { t.responses[i] : i \in 1..Len(t.responses) }
         ELSE {}

\* Trigger.check: the responses it may return; none stands for None
check(t, content) ==
    IF Disabled(t) THEN {}
    ELSE IF Search(t.pattern, content)
         THEN { t.responses[i] : i \in 1..Len(t.responses) }
         ELSE {}

(***************************************************************************)
(* The registry.                                                           *)
(***************************************************************************)
\* a slip: the lookup finds nothing
get_trigger_miss(name) == 0

\* Pal.get_trigger: the object under this name, 0 for None
get_trigger(name) ==
    IF \E i \in 1..Len(triggers) : heap[triggers[i]].name = name
    THEN triggers[CHOOSE i \in 1..Len(triggers) : heap[triggers[i]].name = name]
    ELSE 0

\* self.triggers[name] = ref on dict trig over heap h: an existing key keeps its
\* place, a new key goes last
DictSet(trig, h, name, ref) ==
    IF \E i \in 1..Len(trig) : h[trig[i]].name = name
    THEN [i \in 1..Len(trig) |-> IF h[trig[i]].name = name THEN ref ELSE trig[i]]
    ELSE Append(trig, ref)

\* del self.triggers[name]
DictDel(trig, h, name) == SelectSeq(trig, LAMBDA r : h[r].name # name)

\* [t.to_dict() for t in self.triggers.values()] with the lists copied
Snapshot(trig, h) == [i \in 1..Len(trig) |-> to_dict(h[trig[i]])]

\* the value save() hands to config.triggers.set.  to_dict puts the Trigger's own
\* responses list in it, not a copy: each entry keeps the object whose list it
\* shares (ref) beside the list's content at the hand-off (responses).  instants
\* are the registry values that have existed since the hand-off, and after is what
\* the handler that awaits the write sends once it is done.
Handed(trig, h, after) ==
    [items |-> [i \in 1..Len(trig) |->
                  [name |-> h[trig[i]].name,
                   pattern |-> to_dict(h[trig[i]]).pattern,
                   responses |-> to_dict(h[trig[i]]).responses,
                   ref |-> trig[i]]],
     instants |-> {Snapshot(trig, h)},
     after |-> after]

\* a handed value as it was at the hand-off
Frozen(w) ==
    [i \in 1..Len(w.items) |->
        [name |-> w.items[i].name,
         pattern |-> w.items[i].pattern,
         responses |-> w.items[i].responses]]

\* a handed value as it reads now, the shared lists having changed in between
Deref(w, h) ==
    [i \in 1..Len(w.items) |->
        [name |-> w.items[i].name,
         pattern |-> w.items[i].pattern,
         responses |-> h[w.items[i].ref].responses]]

\* registry value v has the rules and patterns of handed value w
SameRules(w, v) ==
    /\ Len(v) = Len(w.items)
    /\ \A i \in 1..Len(v) :
          v[i].name = w.items[i].name /\ v[i].pattern = w.items[i].pattern

\* the Trigger objects something still refers to
Referenced(trig, wr, ad, ss, pk) ==
    { trig[i] : i \in 1..Len(trig) }
    \cup UNION { { wr[i].items[j].ref : j \in 1..Len(wr[i].items) } : i \in 1..Len(wr) }
    \cup { a.ref : a \in ad }
    \cup { ss[s].ref : s \in SessionIds }
    \cup { c.ref : c \in pk }

\* the heap with every object nothing refers to freed
Collect(h, trig, wr, ad, ss, pk) ==
    [i \in ObjIds |-> IF i \in Referenced(trig, wr, ad, ss, pk) THEN h[i] ELSE Free]

\* a Trigger object can be allocated
CanAlloc == \E i \in ObjIds : IsFree(heap[i])
\* the object a new Trigger gets
Alloc == CHOOSE i \in ObjIds : IsFree(heap[i]) /\ \A j \in ObjIds : IsFree(heap[j]) => i <= j

\* the pending writes have seen registry value v; only a value with a write's
\* rules and patterns can ever equal what that write holds
Track(wr, v) ==
    [i \in 1..Len(wr) |->
        IF SameRules(wr[i], v) THEN [wr[i] EXCEPT !.instants = @ \cup {v}] ELSE wr[i]]

\* the step's effect on the registry, the objects and the suspended handlers
Update(trig, h, wr, ad, ss, pk) ==
    /\ triggers' = trig
    /\ writes' = Track(wr, Snapshot(trig, h))
    /\ adds' = ad
    /\ sessions' = ss
    /\ parked' = pk
    /\ heap' = Collect(h, trig, wr, ad, ss, pk)
    /\ mutated' = (mutated \/ Snapshot(trig, h) # Snapshot(triggers, heap))

\* Pal.save up to its await: the value is built and handed to config.triggers.set
save(trig, h, wr, after) == Append(wr, Handed(trig, h, after))

\* a handler's last output
Output(op, name, status, evaluated, sent) ==
    [op |-> op, name |-> name, status |-> status, evaluated |-> evaluated, sent |-> sent]
\* a message sent with ctx.send or channel.send; rule is the rule a reply came from
Sent(text, file, rule) == [text |-> text, file |-> file, rule |-> rule]

\* no reaction_add event
NoEvent == [emoji |-> "", user |-> "", msg |-> 0]

IdleSession ==
    [pc |-> "idle", ref |-> 0, pages |-> <<>>, page |-> 0, reactions |-> FALSE,
     shown |-> <<>>, ev |-> NoEvent]

(***************************************************************************)
(* Pal.__init__ and Pal.initialize                                         *)
(***************************************************************************)
Init ==
    /\ initPc = "load"
    /\ ready = FALSE
    /\ mention_pattern = NoneV
    /\ triggers = <<>>
    /\ heap = [i \in ObjIds |-> Free]
    /\ stored \in InitStores
    /\ writes = <<>>
    /\ files = FilesOf(ConfigGet(stored))
    /\ adds = {}
    /\ sessions = [s \in SessionIds |-> IdleSession]
    /\ parked = {}
    /\ out = Output("", "", "", <<>>, <<>>)
    /\ mutated = FALSE
    /\ ops = 0

\* initialize, lines 77-78: the saved list becomes the registry; from_dict may raise
InitLoad ==
    /\ initPc = "load"
    /\ LET list == ConfigGet(stored)
       IN IF \E i \in 1..Len(list) : FromDictRaises(list[i])
          THEN /\ initPc' = "crashed"
               /\ UNCHANGED <<triggers, heap, mutated, writes, adds, sessions, parked>>
          ELSE /\ initPc' = "wait_bot"
               /\ Len(list) <= MaxObjs
               /\ triggers' = [i \in 1..Len(list) |-> i]
               /\ heap' = [i \in ObjIds |->
                              IF i <= Len(list) THEN from_dict(list[i]) ELSE Free]
               /\ UNCHANGED <<mutated, writes, adds, sessions, parked>>
    /\ UNCHANGED <<ready, mention_pattern, stored, files, out, ops>>

\* initialize, lines 79-81: the bot is ready, the mention pattern is compiled and
\* the gate opens
InitReady ==
    /\ initPc = "wait_bot"
    /\ initPc' = "done"
    /\ mention_pattern' = Pat(<<"<@!?id> *">>, "")
    /\ ready' = TRUE
    /\ UNCHANGED <<triggers, heap, stored, writes, files, adds, sessions, parked, out,
                   mutated, ops>>

\* config.triggers.set finishes: the oldest handed value is written.  The
\* collaborator is not part of this program: it may have copied the value before
\* it first suspended, or read it only now.  The handler that awaited the write
\* goes on to its acknowledgement (ctx.send or ctx.tick).
CommitWrite ==
    /\ writes # <<>>
    /\ stored' \in { Saved(Frozen(Head(writes))), Saved(Deref(Head(writes), heap)) }
    /\ Update(triggers, heap, Tail(writes), adds, sessions, parked)
    /\ out' = Head(writes).after
    /\ UNCHANGED <<initPc, ready, mention_pattern, files, ops>>

(***************************************************************************)
(* Pal.on_message                                                          *)
(***************************************************************************)
\* a slip: the rules are gone through last to first
ReversedValues == [i \in 1..Len(triggers) |-> triggers[Len(triggers) + 1 - i]]

\* for t in self.triggers.values()
Values == triggers

\* a slip: no `break`, the loop goes on with the next rule
AfterReplyContinue(i) == i + 1

\* the index the loop goes on from after a reply: `break` leaves the loop
AfterReply(i) == Len(Values) + 1

\* the reply on_message sends for response r of rule t
Reply(t, r) ==
    Sent(<<"@author", " ", r.text>>, IF "file" \in DOMAIN r THEN r.file ELSE <<>>, t.name)

\* a slip: the file of a response is taken to be there
PathOpenAlways(t, r) == TRUE

\* path.open('rb') on the file of response r of rule t (lines 117-119) finds it
PathOpen(t, r) == <<t.name, r.file>> \in files

RECURSIVE Loop(_, _, _, _)
\* lines 113-126 from the i-th rule on: the ways the loop can end, each with the
\* rules it evaluated and the replies it sent
Loop(content, i, evaluated, sent) ==
    IF i > Len(Values)
    THEN { [status |-> "done", evaluated |-> evaluated, sent |-> sent] }
    ELSE LET t == heap[Values[i]]
             rs == check(t, content)
             ev == Append(evaluated, t.name)
         IN IF rs = {}
            THEN Loop(content, i + 1, ev, sent)
            ELSE UNION {
                   IF "file" \in DOMAIN r /\ ~PathOpen(t, r)
                   THEN { [status |-> "FileNotFoundError", evaluated |-> ev, sent |-> sent] }
                   ELSE Loop(content, AfterReply(i), ev, Append(sent, Reply(t, r)))
                   : r \in rs }

\* on_message after the gate, lines 105-126
Dispatch(content, pk) ==
    /\ LET n == MentionMatch(content)
       IN IF n < 0
          THEN out' = Output("on_message", "", "not_addressed", <<>>, <<>>)
          ELSE \E o \in Loop(Discard(content, n), 1, <<>>, <<>>) :
                  out' = Output("on_message", "", o.status, o.evaluated, o.sent)
    /\ Update(triggers, heap, writes, adds, sessions, pk)
    /\ UNCHANGED <<initPc, ready, mention_pattern, stored, files>>

\* a handler suspended on the gate
Parked(op, name, ref, text, att, ptext, content) ==
    [op |-> op, name |-> name, ref |-> ref, text |-> text, att |-> att,
     ptext |-> ptext, content |-> content]

\* a command as it arrives, its Trigger argument not yet converted
Command(op, name, text, att, ptext) == Parked(op, name, 0, text, att, ptext, <<>>)

\* await self._ready.wait() with the gate closed
Park(c) ==
    /\ ~ready
    /\ Cardinality(parked) < MaxParked
    /\ c \notin parked
    /\ Update(triggers, heap, writes, adds, sessions, parked \cup {c})
    /\ UNCHANGED <<initPc, ready, mention_pattern, stored, files, out>>

\* one more message, command or reaction arrives.  The handlers the gate held
\* were scheduled when it opened, so they run before the handler of anything
\* that arrives later.
Arrives ==
    /\ ops < MaxOps
    /\ ops' = ops + 1
    /\ ready => parked = {}

\* a message arrives
on_message(m) ==
    /\ Arrives
    /\ IF m.bot
       THEN /\ out' = Output("on_message", "", "bot", <<>>, <<>>)
            /\ UNCHANGED <<initPc, ready, mention_pattern, triggers, heap, stored, writes,
                           files, adds, sessions, parked, mutated>>
       ELSE IF ~ready
            THEN Park(Parked("on_message", "", 0, "", "", <<>>, m.content))
            ELSE Dispatch(m.content, parked)

(***************************************************************************)
(* The owner's commands.  A command's Trigger argument is converted        *)
(* (TriggerConverter.convert) when the command arrives; cog_before_invoke  *)
(* then waits for the gate and the body runs.                              *)
(***************************************************************************)
Quiet == UNCHANGED <<initPc, ready, mention_pattern>>

\* a command ends with this message and changes nothing else
Reject(c, pk, status, text) ==
    /\ out' = Output(c.op, c.name, status, <<>>, << Sent(<<text>>, <<>>, "") >>)
    /\ Update(triggers, heap, writes, adds, sessions, pk)
    /\ UNCHANGED <<stored, files>>
    /\ Quiet

\* Pal.create, lines 143-149
create_body(c, pk) ==
    IF get_trigger(c.name) # 0
    THEN Reject(c, pk, "AlreadyExists", "This trigger already exists! :x:")
    ELSE /\ CanAlloc
         /\ Len(writes) < MaxWrites
         /\ LET h == [heap EXCEPT ![Alloc] = NewTrigger(c.name)]
                trig == DictSet(triggers, h, c.name, Alloc)
                created == Output(c.op, c.name, "ok", <<>>,
                             << Sent(<<"Trigger ", c.name, " has been created!">>, <<>>, "") >>)
            IN Update(trig, h, save(trig, h, writes, created), adds, sessions, pk)
         /\ out' = Output(c.op, c.name, "save", <<>>, <<>>)
         /\ UNCHANGED <<stored, files>>
         /\ Quiet

\* Pal.add, lines 172-175: the response is appended and the registry saved
add_finish(ref, r, ad, pk) ==
    /\ Len(writes) < MaxWrites
    /\ LET h == [heap EXCEPT ![ref].responses = Append(@, r)]
           trig == DictSet(triggers, h, h[ref].name, ref)
           tick == Output("add", heap[ref].name, "ok", <<>>, <<>>)
       IN Update(trig, h, save(trig, h, writes, tick), ad, sessions, pk)
    /\ out' = Output("add", heap[ref].name, "save", <<>>, <<>>)
    /\ UNCHANGED <<stored, files>>
    /\ Quiet

\* Pal.add, lines 156-171: without an attachment the command runs to its save;
\* with one, the file is created under a fresh name and a.save(file) suspends
add_body(c, pk) ==
    /\ Len(heap[c.ref].responses) < MaxResponses
    /\ IF c.att = ""
       THEN add_finish(c.ref, [text |-> c.text], adds, pk)
       ELSE /\ Cardinality(adds) < MaxAdds
            /\ \E prefix \in Prefixes :
                 LET filename == StoredName(prefix, c.att)
                     a == [ref |-> c.ref, response |-> [text |-> c.text, file |-> filename]]
                 IN /\ <<heap[c.ref].name, filename>> \notin files
                    /\ a \notin adds
                    /\ files' = files \cup { <<heap[c.ref].name, filename>> }
                    /\ Update(triggers, heap, writes, adds \cup {a}, sessions, pk)
            /\ out' = Output(c.op, c.name, "saving", <<>>, <<>>)
            /\ UNCHANGED stored
            /\ Quiet

\* Pal.add resumes after a.save(file)
AddResume ==
    \E a \in adds :
        /\ UNCHANGED ops
        /\ Len(heap[a.ref].responses) < MaxResponses
        /\ add_finish(a.ref, a.response, adds \ {a}, parked)

\* a slip: no rule is protected
NotProtected(t) == FALSE

\* the rule neither `pattern` (line 182) nor `delete` (line 254) touches
IsProtected(t) == t.name = "default"

\* Pal.pattern, lines 182-196
pattern_body(c, pk) ==
    IF IsProtected(heap[c.ref])
    THEN Reject(c, pk, "Protected",
                "You cannot change the pattern for the default trigger! :x:")
    ELSE LET compiled == ReCompile(Str(c.ptext), "I")
         IN IF compiled.err = "re.error"
            THEN Reject(c, pk, "InvalidPattern", "Invalid pattern! :x:")
            ELSE /\ Len(writes) < MaxWrites
                 /\ LET h == [heap EXCEPT ![c.ref].pattern = compiled.value]
                        trig == DictSet(triggers, h, h[c.ref].name, c.ref)
                        tick == Output(c.op, c.name, "ok", <<>>, <<>>)
                    IN Update(trig, h, save(trig, h, writes, tick), adds, sessions, pk)
                 /\ out' = Output(c.op, c.name, "save", <<>>, <<>>)
                 /\ UNCHANGED <<stored, files>>
                 /\ Quiet

\* shutil.rmtree(folder) with FileNotFoundError suppressed
rmtree(fs, folder) == { f \in fs : f[1] # folder }

\* Pal.delete, lines 254-265
delete_body(c, pk) ==
    IF IsProtected(heap[c.ref])
    THEN Reject(c, pk, "Protected", "You cannot delete the default trigger! :x:")
    ELSE LET name == heap[c.ref].name
         IN /\ files' = rmtree(files, name)
            /\ IF \E i \in 1..Len(triggers) : heap[triggers[i]].name = name
               THEN /\ Len(writes) < MaxWrites
                    /\ LET trig == DictDel(triggers, heap, name)
                           deleted == Output(c.op, c.name, "ok", <<>>,
                                         << Sent(<<"Trigger ", name, " has been deleted!">>,
                                                 <<>>, "") >>)
                       IN Update(trig, heap, save(trig, heap, writes, deleted),
                                    adds, sessions, pk)
                    /\ out' = Output(c.op, c.name, "save", <<>>, <<>>)
               ELSE /\ Update(triggers, heap, writes, adds, sessions, pk)
                    /\ out' = Output(c.op, c.name, "KeyError", <<>>, <<>>)
            /\ UNCHANGED stored
            /\ Quiet

(***************************************************************************)
(* Pal.remove: the pager                                                   *)
(***************************************************************************)
\* emojis = ['<', 'x', 'trash', '>'] (line 211)
Emojis == {"prev", "close", "trash", "next"}
Users == {"owner", "other"}
\* a reaction_add event: the emoji, who reacted, and the message reacted to
\* (a session's message, or 0 for any other message)
Events == [emoji : Emojis \cup {"other"}, user : Users, msg : 0..MaxSessions]

\* the page shown for response r (lines 205-208)
Display(r) ==
    IF "file" \in DOMAIN r THEN <<r.text, "\n\n**File:** ", r.file>> ELSE <<r.text>>

\* del seq[i] for a Python index i
DelAt(seq, i) == [k \in 1..(Len(seq) - 1) |-> IF k <= i THEN seq[k] ELSE seq[k + 1]]

\* a session slot no running command holds
Vacant(s) == sessions[s].pc \in {"idle", "done", "crashed"}

\* the handler raised: nothing of it is left but the reactions on its message
Crashed(ss) == [IdleSession EXCEPT !.pc = "crashed", !.reactions = ss.reactions,
                                   !.shown = ss.shown]

\* Pal.remove, lines 203-213: the pages are built and "Loading..." is sent
remove_body(c, pk) ==
    \E s \in SessionIds :
        /\ Vacant(s)
        /\ \A o \in SessionIds : Vacant(o) => s <= o
        /\ LET rs == heap[c.ref].responses
               new == [pc |-> "sent", ref |-> c.ref,
                       pages |-> [i \in 1..Len(rs) |-> Display(rs[i])],
                       page |-> 0, reactions |-> FALSE,
                       shown |-> <<"Loading...">>, ev |-> NoEvent]
           IN Update(triggers, heap, writes, adds, [sessions EXCEPT ![s] = new], pk)
        /\ out' = Output(c.op, c.name, "ok", <<>>, << Sent(<<"Loading...">>, <<>>, "") >>)
        /\ UNCHANGED <<stored, files>>
        /\ Quiet

\* line 214: add_reactions puts the four emojis on the message
SessionReact(s) ==
    /\ sessions[s].pc = "sent"
    /\ Update(triggers, heap, writes, adds,
              [sessions EXCEPT ![s].pc = "edit", ![s].reactions = TRUE], parked)
    /\ UNCHANGED <<stored, files, out, ops>>
    /\ Quiet

\* line 217: msg.edit(content=pages[page]); pages[page] raises IndexError when
\* there is no such page.  Lines 219-222: then the session waits for a reaction.
SessionEdit(s) ==
    /\ sessions[s].pc = "edit"
    /\ LET ss == sessions[s]
           new == IF ss.page < Len(ss.pages)
                  THEN [ss EXCEPT !.pc = "wait", !.shown = ss.pages[ss.page + 1]]
                  ELSE Crashed(ss)
       IN Update(triggers, heap, writes, adds, [sessions EXCEPT ![s] = new], parked)
    /\ UNCHANGED <<stored, files, out, ops>>
    /\ Quiet

\* the check of wait_for (line 220), for the session of ctx.author "owner"
WaitCheck(e) == e.emoji \in Emojis /\ e.user = "owner"

\* a reaction is added somewhere: every waiting session whose check accepts it
\* gets it
ReactionAdd(e) ==
    /\ Arrives
    /\ \E s \in SessionIds : sessions[s].pc = "wait"
    /\ Update(triggers, heap, writes, adds,
              [s \in SessionIds |->
                  IF sessions[s].pc = "wait" /\ WaitCheck(e)
                  THEN [sessions[s] EXCEPT !.pc = "got", !.ev = e]
                  ELSE sessions[s]],
              parked)
    /\ UNCHANGED <<stored, files, out>>
    /\ Quiet

\* lines 223-224: thirty seconds pass without a reaction
SessionTimeout(s) ==
    /\ sessions[s].pc = "wait"
    /\ Update(triggers, heap, writes, adds, [sessions EXCEPT ![s].pc = "clear"], parked)
    /\ UNCHANGED <<stored, files, out, ops>>
    /\ Quiet

\* page %= len(pages)
Wrap(page, n) == page % n

\* lines 225-246: the session handles the reaction it got
SessionHandle(s) ==
    /\ sessions[s].pc = "got"
    /\ LET ss == sessions[s]
           t == heap[ss.ref]
           turn(page) == [ss EXCEPT !.pc = "edit", !.ev = NoEvent,
                                    !.page = Wrap(page, Len(ss.pages))]
       IN CASE ss.ev.emoji = "prev" ->
                 /\ Update(triggers, heap, writes, adds,
                           [sessions EXCEPT ![s] = turn(ss.page - 1)], parked)
                 /\ UNCHANGED <<files, out>>
            [] ss.ev.emoji = "next" ->
                 /\ Update(triggers, heap, writes, adds,
                           [sessions EXCEPT ![s] = turn(ss.page + 1)], parked)
                 /\ UNCHANGED <<files, out>>
            [] ss.ev.emoji = "close" ->
                 /\ Update(triggers, heap, writes, adds,
                           [sessions EXCEPT ![s].pc = "clear", ![s].ev = NoEvent], parked)
                 /\ UNCHANGED <<files, out>>
            [] OTHER ->
                 LET pages == DelAt(ss.pages, ss.page)
                 IN IF ss.page >= Len(t.responses)
                    THEN \* trigger.responses[page] raises IndexError
                         /\ Update(triggers, heap, writes, adds,
                                   [sessions EXCEPT ![s] = Crashed(ss)], parked)
                         /\ UNCHANGED <<files, out>>
                    ELSE LET r == t.responses[ss.page + 1]
                             h == [heap EXCEPT ![ss.ref].responses = DelAt(@, ss.page)]
                         IN /\ files' = IF "file" \in DOMAIN r
                                        THEN files \ { <<t.name, r.file>> }
                                        ELSE files
                            /\ IF pages = <<>>
                               THEN /\ Update(triggers, h, writes, adds,
                                        [sessions EXCEPT ![s].pc = "clear", ![s].ev = NoEvent,
                                                         ![s].pages = pages], parked)
                                    /\ out' = Output("remove", t.name, "empty", <<>>,
                                         << Sent(<<"There's no more responses to delete!">>,
                                                 <<>>, "") >>)
                               ELSE /\ Update(triggers, h, writes, adds,
                                        [sessions EXCEPT ![s].pc = "edit", ![s].ev = NoEvent,
                                                         ![s].pages = pages,
                                                         ![s].page = Wrap(ss.page, Len(pages))],
                                        parked)
                                    /\ out' = out
    /\ UNCHANGED <<stored, ops>>
    /\ Quiet

\* line 247: msg.clear_reactions(), and the command is over
SessionClear(s) ==
    /\ sessions[s].pc = "clear"
    /\ Update(triggers, heap, writes, adds,
              [sessions EXCEPT ![s] = [IdleSession EXCEPT !.pc = "done",
                                                          !.shown = sessions[s].shown]],
              parked)
    /\ UNCHANGED <<stored, files, out, ops>>
    /\ Quiet

\* the body of command c, the gate being open
Body(c, pk) ==
    \/ c.op = "on_message" /\ Dispatch(c.content, pk)
    \/ c.op = "create" /\ create_body(c, pk)
    \/ c.op = "add" /\ add_body(c, pk)
    \/ c.op = "pattern" /\ pattern_body(c, pk)
    \/ c.op = "delete" /\ delete_body(c, pk)
    \/ c.op = "remove" /\ remove_body(c, pk)

\* TriggerConverter.convert, then cog_before_invoke, then the body
Invoke(c) ==
    LET ref == IF c.op = "create" THEN 0 ELSE get_trigger(c.name)
        cc == [c EXCEPT !.ref = ref]
    IN IF c.op # "create" /\ ref = 0
       THEN /\ Arrives
            /\ out' = Output(c.op, c.name, "BadArgument", <<>>,
                             << Sent(<<"This trigger doesn't exist! :x:">>, <<>>, "") >>)
            /\ UNCHANGED <<initPc, ready, mention_pattern, triggers, heap, stored, writes,
                           files, adds, sessions, parked, mutated>>
       ELSE Arrives /\ IF ~ready THEN Park(cc) ELSE Body(cc, parked)

Create(name) == Invoke(Command("create", name, "", "", <<>>))
Add(name, text, att) == Invoke(Command("add", name, text, att, <<>>))
Pattern(name, ptext) == Invoke(Command("pattern", name, "", "", ptext))
Delete(name) == Invoke(Command("delete", name, "", "", <<>>))
Remove(name) == Invoke(Command("remove", name, "", "", <<>>))

\* the gate has opened: a suspended handler goes on
Resume == ready /\ UNCHANGED ops /\ \E c \in parked : Body(c, parked \ {c})

Next ==
    \/ InitLoad
    \/ InitReady
    \/ CommitWrite
    \/ \E m \in Messages : on_message(m)
    \/ \E name \in RuleNames : Create(name)
    \/ \E name \in RuleNames, text \in Texts, att \in Attachments \cup {""} :
          Add(name, text, att)
    \/ AddResume
    \/ \E name \in RuleNames, ptext \in PatternTexts : Pattern(name, ptext)
    \/ \E name \in RuleNames : Delete(name)
    \/ \E name \in RuleNames : Remove(name)
    \/ \E s \in SessionIds : SessionReact(s)
    \/ \E s \in SessionIds : SessionEdit(s)
    \/ \E e \in Events : ReactionAdd(e)
    \/ \E s \in SessionIds : SessionTimeout(s)
    \/ \E s \in SessionIds : SessionHandle(s)
    \/ \E s \in SessionIds : SessionClear(s)
    \/ Resume

Spec == Init /\ [][Next]_vars

\* The event loop runs every handler that can go on: a call to Config or to the
\* chat service returns, the bot becomes ready, and wait_for gives up after its
\* thirty seconds when no reaction comes.
FairSpec ==
    /\ Spec
    /\ WF_vars(InitLoad)
    /\ WF_vars(InitReady)
    /\ WF_vars(CommitWrite)
    /\ WF_vars(AddResume)
    /\ WF_vars(Resume)
    /\ \A s \in SessionIds :
          /\ WF_vars(SessionReact(s))
          /\ WF_vars(SessionEdit(s))
          /\ WF_vars(SessionTimeout(s))
          /\ WF_vars(SessionHandle(s))
          /\ WF_vars(SessionClear(s))

(***************************************************************************)
(* The claims.                                                             *)
(***************************************************************************)
\* the sets of suspended handlers a step may leave
ParkedAfter == {parked} \cup { parked \ {c} : c \in parked }

\* this step is on_message matching `content` against the registry, on arrival
\* or after the gate
Dispatched(content) ==
    /\ out'.op = "on_message"
    /\ ops' # ops \/ parked' # parked
    /\ \E pk \in ParkedAfter : Dispatch(content, pk)

\* the claim's reading of "begins with the addressing token"
Addressed(content) == Len(content) > 0 /\ content[1] \in MentionTokens

RECURSIVE Stripped(_)
\* content less its leading spaces
Stripped(content) ==
    IF Len(content) > 0 /\ content[1] = " " THEN Stripped(Tail(content)) ELSE content
\* an addressed content as its mention and the text rules are matched against
Remaining(content) == <<content[1]>> \o Stripped(Tail(content))

\* rule number i of the registry
Rule(i) == heap[triggers[i]]
\* rule number i answers text
Matches(i, text) == check(Rule(i), text) # {}

\* C1: when on_message replies, the reply is a response of the first rule, in
\* registry order, whose check is not None, and the rules evaluated are exactly
\* the rules up to and including that one.
C1_FirstMatchWins ==
    [][\A content \in Contents :
          (Dispatched(content) /\ out'.sent # <<>>) =>
             LET text == Tail(Remaining(content))
                 hits == { i \in 1..Len(triggers) : Matches(i, text) }
             IN /\ Addressed(content)
                /\ hits # {}
                /\ LET first == CHOOSE i \in hits : \A j \in hits : i <= j
                   IN /\ out'.sent[1].rule = Rule(first).name
                      /\ \E r \in check(Rule(first), text) : out'.sent[1] = Reply(Rule(first), r)
                      /\ out'.evaluated = [i \in 1..first |-> Rule(i).name]
      ]_vars

\* C1 witness: a reply came from the first of two rules, and whatever the first
\* rule answers the second answers too.
C1_Witness ==
    /\ out.op = "on_message"
    /\ Len(out.sent) = 1
    /\ Len(triggers) = 2
    /\ out.sent[1].rule = Rule(1).name
    /\ out.evaluated = <<Rule(1).name>>
    /\ \E content \in Contents : Matches(1, content)
    /\ \A content \in Contents : Matches(1, content) => Matches(2, content)

\* C2: on_message sends at most one reply for a message, and none for a message
\* of a bot, a message that is not addressed, or one that ends in an error.
C2_AtMostOneReply ==
    out.op = "on_message" =>
        /\ Len(out.sent) <= 1
        /\ out.status \in {"bot", "not_addressed", "FileNotFoundError"} => out.sent = <<>>

\* C2 witness: one reply was sent while a save was suspended on its write, with
\* two rules that answer the same texts.
C2_Witness ==
    /\ out.op = "on_message"
    /\ Len(out.sent) = 1
    /\ writes # <<>>
    /\ Len(triggers) = 2
    /\ \E content \in Contents : Matches(1, content) /\ Matches(2, content)

\* C7: for a message that does not begin with the mention, on_message sends no
\* reply and evaluates no rule.
C7_NotAddressedIgnored ==
    [][\A content \in Contents :
          (Dispatched(content) /\ ~Addressed(content)) =>
             out'.sent = <<>> /\ out'.evaluated = <<>>
      ]_vars

\* C7 witness: a message was found not addressed while some rule of the registry
\* answers the message h.
C7_Witness ==
    /\ out.op = "on_message"
    /\ out.status = "not_addressed"
    /\ \E i \in 1..Len(triggers) : Matches(i, <<"h">>)

\* the claim's reading of "disabled"
NoPatternOrNoResponses(t) == t.pattern = NoneV \/ Len(t.responses) = 0

\* C8: a rule with no pattern or no responses answers no text, and no reply of
\* on_message comes from such a rule.
C8_DisabledNeverMatches ==
    [][\A content \in Contents : \A i \in 1..Len(triggers) :
          (Dispatched(content) /\ NoPatternOrNoResponses(Rule(i))) =>
             /\ \A text \in Contents : ~Matches(i, text)
             /\ \A k \in 1..Len(out'.sent) : out'.sent[k].rule # Rule(i).name
      ]_vars

\* C8 witness: on_message evaluated a disabled rule that has responses, passed it
\* over, and replied from a later rule.
C8_Witness ==
    /\ out.op = "on_message"
    /\ Len(out.sent) = 1
    /\ Len(out.evaluated) = 2
    /\ \E i \in 1..Len(triggers) :
          /\ Rule(i).name = out.evaluated[1]
          /\ Rule(i).pattern = NoneV
          /\ Rule(i).responses # <<>>

\* session s is between its start and its end
Active(s) == sessions[s].pc \in {"sent", "edit", "wait", "got", "clear"}

\* C3: throughout a session the display list and the rule's response list have
\* the same length and pages[i] is the display string of responses[i].
C3_PagerAligned ==
    \A s \in SessionIds :
        Active(s) =>
            LET rs == heap[sessions[s].ref].responses
            IN /\ Len(sessions[s].pages) = Len(rs)
               /\ \A i \in 1..Len(rs) : sessions[s].pages[i] = Display(rs[i])

\* no handler is suspended and no write is pending
Quiescent ==
    /\ ready
    /\ writes = <<>>
    /\ adds = {}
    /\ parked = {}
    /\ \A s \in SessionIds : ~Active(s)

\* C4: once a mutating command has completed and nothing is in flight, the saved
\* rule list is the serialization of the registry.
C4_PersistedWhenQuiet ==
    (Quiescent /\ mutated) => stored = Saved(Snapshot(triggers, heap))

\* C5: a value handed to config.triggers.set, read at any moment before it is
\* written, is the registry as it was at one instant since the hand-off.
C5_NoTornWrite ==
    \A i \in 1..Len(writes) : Deref(writes[i], heap) \in writes[i].instants

\* this step is the body of command c, on arrival or after the gate
Ran(c) ==
    /\ out'.op = c.op
    /\ ops' # ops \/ parked' # parked
    /\ \E pk \in ParkedAfter : Body(c, pk)

\* command c with its Trigger argument converted
Converted(c) == [c EXCEPT !.ref = get_trigger(c.name)]

\* the registry holds a rule of this name
Present(name) == \E i \in 1..Len(triggers) : Rule(i).name = name
\* the position of the rule of this name
IndexOf(name) == CHOOSE i \in 1..Len(triggers) : Rule(i).name = name

\* the step leaves the registry, the attachment files and the saved data as
\* they are and hands nothing to be saved
Untouched == UNCHANGED <<triggers, heap, files, stored, writes>>

\* `pattern` and `delete` commands on the rule default
OnDefault ==
    { Converted(Command("delete", "default", "", "", <<>>)) }
    \cup { Converted(Command("pattern", "default", "", "", pt)) : pt \in PatternTexts }

\* C6: a registry that holds the rule default keeps it, with the pattern it has;
\* `delete` and `pattern` on default are rejected and change neither the registry
\* nor the files nor the saved data; default without responses answers no text.
C6_DefaultProtected ==
    [][Present("default") =>
          /\ \E j \in 1..Len(triggers') :
                /\ heap'[triggers'[j]].name = "default"
                /\ heap'[triggers'[j]].pattern = Rule(IndexOf("default")).pattern
          /\ \A c \in OnDefault : Ran(c) => (Untouched /\ out'.status = "Protected")
          /\ Rule(IndexOf("default")).responses = <<>> =>
                \A text \in Contents : ~Matches(IndexOf("default"), text)
      ]_vars

\* C6 witness: the pager has emptied default (the saved data still hold its
\* response) and a command on default has then been rejected.
C6_Witness ==
    /\ out.status = "Protected"
    /\ Present("default")
    /\ Rule(IndexOf("default")).responses = <<>>
    /\ stored.kind = "set"
    /\ \E k \in 1..Len(stored.value) :
          stored.value[k].name = "default" /\ stored.value[k].responses # <<>>

\* C9: `create` with a name the registry holds is rejected and changes nothing;
\* with a fresh name it puts a rule without pattern and responses last, the rules
\* before it staying as they are.
C9_CreateExisting ==
    [][\A name \in RuleNames :
          Ran(Command("create", name, "", "", <<>>)) =>
             IF Present(name)
             THEN Untouched /\ out'.status = "AlreadyExists"
             ELSE /\ Len(triggers') = Len(triggers) + 1
                  /\ \A i \in 1..Len(triggers) :
                        triggers'[i] = triggers[i] /\ heap'[triggers[i]] = Rule(i)
                  /\ heap'[triggers'[Len(triggers')]] =
                        [name |-> name, pattern |-> NoneV, responses |-> <<>>]
                  /\ UNCHANGED <<files, stored>>
      ]_vars

\* C9 witness: `create greet` was rejected, greet having a response.
C9_Witness ==
    /\ out.op = "create"
    /\ out.status = "AlreadyExists"
    /\ out.name = "greet"
    /\ Present("greet")
    /\ Rule(IndexOf("greet")).responses # <<>>

\* the claim's reading of a text that does not compile: its parentheses do not pair
Unbalanced(pt) ==
    Len(SelectSeq(pt, LAMBDA ch : ch = "(")) # Len(SelectSeq(pt, LAMBDA ch : ch = ")"))

\* C10 as stated: `pattern` with a text that does not compile ends with
\* InvalidPattern, whatever the rule, and changes nothing.
C10_AlwaysInvalidPattern ==
    [][\A name \in RuleNames : \A pt \in PatternTexts :
          (Unbalanced(pt) /\ Present(name)
             /\ Ran(Converted(Command("pattern", name, "", "", pt)))) =>
                Untouched /\ out'.status = "InvalidPattern"
      ]_vars

\* C10: `pattern` with a text that does not compile changes neither the rule nor
\* anything else and hands nothing to be saved; it ends with InvalidPattern on a
\* rule other than default, and with Protected on default, which is refused
\* before the text is compiled.
C10_InvalidPattern ==
    [][\A name \in RuleNames : \A pt \in PatternTexts :
          (Unbalanced(pt) /\ Present(name)
             /\ Ran(Converted(Command("pattern", name, "", "", pt)))) =>
                /\ Untouched
                /\ out'.status = IF name = "default" THEN "Protected" ELSE "InvalidPattern"
      ]_vars

\* C10 witness: `pattern` was rejected for a text that does not compile, the rule
\* having a pattern, which it keeps.
C10_Witness ==
    /\ out.op = "pattern"
    /\ out.status = "InvalidPattern"
    /\ Present(out.name)
    /\ Truthy(Rule(IndexOf(out.name)).pattern)

\* initialize has gone through its load
Loaded == initPc \in {"wait_bot", "done"}

\* C11: the load does not raise, and the registry it builds from the saved list R
\* serializes back to R (the list a save straight after the load would write):
\* same rules in the same order, with their pattern sources and responses.
C11_RoundTrip ==
    /\ initPc # "crashed"
    /\ (Loaded /\ ~mutated) => Snapshot(triggers, heap) = ConfigGet(stored)

\* C12: a session whose message carries the four reactions comes to a state
\* where they are cleared from it.
C12_ReactionsCleared ==
    \A s \in SessionIds : sessions[s].reactions ~> ~sessions[s].reactions

TrashOnLast(s) ==
    /\ sessions[s].pc = "got"
    /\ sessions[s].ev.emoji = "trash"
    /\ Len(heap[sessions[s].ref].responses) = 1
    /\ sessions'[s] # sessions[s]

\* C14: the trash reaction on a rule with exactly one response ends the session
\* after the report that no responses remain, leaves the rule without responses,
\* and the file the response named, if any, is not in the rule's folder.
C14_DeleteLast ==
    [][\A s \in SessionIds :
          TrashOnLast(s) =>
             LET ref == sessions[s].ref
                 r == heap[ref].responses[1]
             IN /\ sessions'[s].pc = "clear"
                /\ out'.op = "remove" /\ out'.status = "empty"
                /\ heap'[ref].responses = <<>>
                /\ "file" \in DOMAIN r => <<heap[ref].name, r.file>> \notin files'
      ]_vars

\* response r of rule number i names a file that is not in the rule's folder
Missing(i, r) == "file" \in DOMAIN r /\ <<Rule(i).name, r.file>> \notin files

Indexing(s) ==
    \/ sessions[s].pc = "edit"
    \/ sessions[s].pc = "got" /\ sessions[s].ev.emoji = "trash"

\* C16: whenever a session shows a page or deletes the current one, page is an
\* index of its display list and of the rule's response list.
C16_IndexValid ==
    \A s \in SessionIds :
        Indexing(s) =>
            /\ 0 <= sessions[s].page
            /\ sessions[s].page < Len(sessions[s].pages)
            /\ sessions[s].page < Len(heap[sessions[s].ref].responses)

\* C17: a waiting session takes up a reaction only when the owner has put one of
\* the four emojis on that session's own message, and a reaction anywhere else
\* leaves the session as it is.
C17_OwnEventsOnly ==
    [][\A s \in SessionIds :
          (sessions[s].pc = "wait" /\ sessions'[s].pc = "got") =>
              /\ sessions'[s].ev.msg = s
              /\ sessions'[s].ev.user = "owner"
              /\ sessions'[s].ev.emoji \in Emojis
      ]_vars

\* the registry holds a rule of this name after the step
PresentAfter(name) == \E i \in 1..Len(triggers') : heap'[triggers'[i]].name = name
\* the object the registry holds under this name after the step
ObjectAfter(name) ==
    triggers'[CHOOSE i \in 1..Len(triggers') : heap'[triggers'[i]].name = name]

\* C18: once the registry is loaded, a name it does not hold comes into it only
\* by `create` of that name, and the object under a name it holds is not replaced
\* by another.
C18_DeletedStaysDeleted ==
    [][\A name \in RuleNames :
          Loaded =>
             /\ (~Present(name) /\ PresentAfter(name)) =>
                    (out'.op = "create" /\ out'.name = name)
             /\ (Present(name) /\ PresentAfter(name)) =>
                    ObjectAfter(name) = get_trigger(name)
      ]_vars

\* C19: every response of a rule of the registry that names a file names one
\* that is in the rule's folder.
C19_NoDangling ==
    \A i \in 1..Len(triggers) :
        \A k \in 1..Len(Rule(i).responses) : ~Missing(i, Rule(i).responses[k])

\* C20: when initialize starts with nothing saved, so that the load returns the
\* registered default list, the gate comes to be open.
C20_GateOpens ==
    (initPc = "load" /\ stored = Unset) ~> ready

====
